---- MODULE Spec2Model ----
(***************************************************************************)
(* Sensor ML backend (src/backend/main.py): the poll cycle                 *)
(* process_and_train, the local parquet store, the three joblib model      *)
(* artifacts and the read endpoints.                                       *)
(*                                                                         *)
(* The specifications:                                                     *)
(*   Spec      one poll cycle per step (cycles never overlap and nothing   *)
(*             else writes the store or the artifacts), on tables that     *)
(*             have every column;                                          *)
(*   TrainSpec one poll cycle per step on the tables that decide what the  *)
(*             trainers do: row counts at the gates, a missing column;     *)
(*   InterpSpec clean_df on tables with missing Temperature cells;         *)
(*   ConcSpec  the startup run, the scheduler's job threads and the        *)
(*             request threads interleaved at the file operations;         *)
(*   FwdSpec   the ThingSpeak forwarder (src/local_thingsSpeak.py): the    *)
(*             historical fetch of the main thread and the threads that    *)
(*             on_message starts, interleaved at the statements of         *)
(*             send_to_thingspeak_safe and save_sent_timestamp.            *)
(*                                                                         *)
(* A timestamp is an integer tick; NaT is the unparseable time cell.  A    *)
(* row carries its time, its Temperature cell and whether its Battery cell *)
(* holds a level or is NaN.  Only the tables of InterpSpec have missing   *)
(* Temperature cells; elsewhere clean_df's interpolation leaves the        *)
(* values as they are.  A Battery cell is NaN in the rows of a table that  *)
(* has no Battery column, once they stand in a frame that has the column.  *)
(***************************************************************************)
EXTENDS Integers, Sequences, FiniteSets, TLC

\* ------------------------------------------------------------ bounds
MaxTime == 2
InterpTicks == 4
MaxSends == 2

\* ------------------------------------------------- program constants
AnomMinRows == 10
ForecastMinRows == 20
MaxLag == 3
MaxInstances == 1
NaT == 0
NaN == -1

NumCols == {"Battery", "Humidity", "Motion", "Temperature"}

\* ---------------------------------------------------------- inputs
\* A backlog table holds rows at ticks 1..n, one row short of a training
\* gate; a small table holds rows at the ticks after the longest backlog.
BacklogLens == {AnomMinRows - 1, ForecastMinRows + MaxLag}
TimeBase == ForecastMinRows + MaxLag + 1
Times == (TimeBase + 1) .. (TimeBase + MaxTime)
ColsChoices == {NumCols, NumCols \ {"Battery"}}

\* The cells of a small table: a reading of 20 at each tick, a second reading
\* of the first tick that carries another value, and a row whose time cell
\* does not parse.
Reading(t, temp) == [time |-> t, Temperature |-> temp, Battery |-> "level"]
RawRows ==
    {Reading(t, 20) : t \in Times}
    \cup {Reading(TimeBase + 1, 99)}
    \cup {Reading(NaT, 20)}
\* The small tables: no row, one row, two rows.
SmallSeqs == {<<>>} \cup {<<r>> : r \in RawRows} \cup {<<r, s>> : r, s \in RawRows}
Backlog(n) == [i \in 1..n |-> Reading(i, 20)]

\* pd.read_csv: the table of a CSV object with these columns; a row has no
\* Battery level where the table has no Battery column.
Table(cols, hasTime, rows) ==
    [fetch |-> "ok", cols |-> cols, hasTime |-> hasTime,
     rows |-> [i \in 1..Len(rows) |->
                 IF "Battery" \in cols THEN rows[i]
                 ELSE [rows[i] EXCEPT !.Battery = "NaN"]]]
Failure(kind) == [fetch |-> kind, cols |-> {}, hasTime |-> FALSE, rows |-> <<>>]

\* The bucket objects a poll may find: small tables and backlogs with every
\* column, one-row tables with no time column, and the downloads and parses
\* that fail.
Raws ==
    {Table(NumCols, TRUE, rows) : rows \in SmallSeqs}
    \cup {Table(NumCols, TRUE, Backlog(n)) : n \in BacklogLens}
    \cup {Table(NumCols, FALSE, <<r>>) : r \in RawRows}
    \cup {Failure(k) : k \in {"download_error", "parser_error"}}
NoRaw == [fetch |-> "none"]

\* The tables of the interpolation runs: a row or none at each of the ticks
\* 1..InterpTicks, in time order, its Temperature cell NaN, 20 or 26.  A
\* value is carried as a multiple of 1/Unit, Unit a multiple of every span
\* between two ticks, so that the interpolated values are exact.
RECURSIVE Factorial(_)
Factorial(n) == IF n <= 1 THEN 1 ELSE n * Factorial(n - 1)
Unit == Factorial(InterpTicks - 1)
NoRow == NaN - 1
CellChoices == {NaN, 20 * Unit, 26 * Unit}
RECURSIVE RowsFrom(_, _)
RowsFrom(cells, t) ==
    IF t > InterpTicks THEN <<>>
    ELSE (IF cells[t] = NoRow THEN <<>> ELSE <<Reading(t, cells[t])>>)
         \o RowsFrom(cells, t + 1)
InterpTables ==
    {Table(NumCols, TRUE, RowsFrom(cells, 1)) :
        cells \in [1..InterpTicks -> CellChoices \cup {NoRow}]}

\* The bucket objects of the training runs: the backlogs, a backlog of
\* TimeBase rows without a Battery column, one-row tables with and without
\* a Battery column, and a download that fails.
TrainRaws ==
    {Table(NumCols, TRUE, Backlog(n)) : n \in BacklogLens}
    \cup {Table(NumCols \ {"Battery"}, TRUE, Backlog(TimeBase))}
    \cup {Table(cols, TRUE, <<Reading(t, 20)>>) : cols \in ColsChoices, t \in Times}
    \cup {Failure("download_error")}

\* ------------------------------------------------------ data frames
\* A sort that leaves the frame in its input order.
SortByTime_Unsorted(s) == s

IsSorted(s) == \A i \in 1..(Len(s) - 1) : s[i].time <= s[i + 1].time

RECURSIVE InsertionSort(_)
InsertionSort(s) ==
    IF s = <<>> THEN <<>>
    ELSE LET r == s[Len(s)]
             rest == InsertionSort(SubSeq(s, 1, Len(s) - 1))
             k == Cardinality({i \in 1..Len(rest) : rest[i].time <= r.time})
         IN  SubSeq(rest, 1, k) \o <<r>> \o SubSeq(rest, k + 1, Len(rest))

\* df.sort_values('time'): ascending, rows with equal time keep their order
\* (a frame already in order is returned as it is).
SortByTime(s) == IF IsSorted(s) THEN s ELSE InsertionSort(s)

\* ----------------------------------------------------- interpolation
\* A Temperature cell is a number or NaN.  The rows whose cell is a number:
Known(rows) == {i \in 1..Len(rows) : rows[i].Temperature # NaN}

\* An interpolation against the row count (method='linear').
Elapsed_ByRow(rows, i, j) == j - i

\* interpolate(method='time'), line 99: the x axis is the time index.
Elapsed(rows, i, j) == rows[j].time - rows[i].time

SetMax(S) == CHOOSE x \in S : \A y \in S : y <= x
SetMin(S) == CHOOSE x \in S : \A y \in S : x <= y

\* interpolate(method='time', limit_direction='both') at row i of a frame
\* sorted by time: numpy.interp over the known cells, which takes the first
\* known value before them and the last known value after them; a column
\* with no known cell stays NaN (and so does its median, lines 100-102).
\* Between two known cells of one and the same time the left one is taken.
InterpAt(rows, i) ==
    LET known == Known(rows)
        before == {k \in known : k < i}
        after == {k \in known : k > i}
    IN  IF i \in known THEN rows[i].Temperature
        ELSE IF known = {} THEN NaN
        ELSE IF before = {} THEN rows[SetMin(after)].Temperature
        ELSE IF after = {} THEN rows[SetMax(before)].Temperature
        ELSE LET l == SetMax(before)
                 r == SetMin(after)
                 span == Elapsed(rows, l, r)
             IN  IF span = 0 THEN rows[l].Temperature
                 ELSE rows[l].Temperature
                      + ((rows[r].Temperature - rows[l].Temperature)
                         * Elapsed(rows, l, i)) \div span

\* clean_df, lines 97-102, on the Temperature column.
Interpolate(rows) ==
    IF Known(rows) = 1..Len(rows) THEN rows
    ELSE [i \in 1..Len(rows) |-> [rows[i] EXCEPT !.Temperature = InterpAt(rows, i)]]

\* A clean_df that never misses the time column.
SchemaError_Ignored(raw) == FALSE

\* clean_df: whether it raises ValueError("No time column found").
SchemaError(raw) == ~raw.hasTime

\* clean_df: to_datetime(errors='coerce'), dropna(subset=['time']), sort,
\* interpolation of the numeric columns the table has.
clean_df(raw) ==
    LET sorted == SortByTime(SelectSeq(raw.rows, LAMBDA r : r.time # NaT))
    IN  [cols |-> raw.cols,
         rows |-> IF "Temperature" \in raw.cols THEN Interpolate(sorted) ELSE sorted]

EmptyFrame == [cols |-> {}, rows |-> <<>>]
IsEmpty(df) == df.rows = <<>>

RECURSIVE MaxTimeFrom(_, _, _)
MaxTimeFrom(rows, i, best) ==
    IF i > Len(rows) THEN best
    ELSE MaxTimeFrom(rows, i + 1, IF rows[i].time > best THEN rows[i].time ELSE best)

\* pd.to_datetime(df['time']).max() of a non-empty frame.
MaxTimeOf(rows) == MaxTimeFrom(rows, 2, rows[1].time)

\* A mask that also takes the rows at the watermark.
IsNew_Inclusive(t, last_time) == t >= last_time

\* A mask that leaves out the rows of the tick after the watermark.
IsNew_AfterNext(t, last_time) == t > last_time + 1

\* The mask of the new rows of df_clean against the watermark.
IsNew(t, last_time) == t > last_time

\* A merge that lets an incoming row replace the persisted rows of its time.
Merge_Upsert(df_local, df_clean) ==
    LET incoming == {df_clean.rows[i].time : i \in 1..Len(df_clean.rows)}
        kept == SelectSeq(df_local.rows, LAMBDA r : r.time \notin incoming)
    IN  [merged |-> [cols |-> df_local.cols \cup df_clean.cols,
                     rows |-> SortByTime(kept \o df_clean.rows)],
         new_rows |-> Len(kept) + Len(df_clean.rows) - Len(df_local.rows)]

\* A merge that keeps the new rows only.
Merge_Overwrite(df_local, df_clean) ==
    IF IsEmpty(df_local)
    THEN [merged |-> df_clean, new_rows |-> Len(df_clean.rows)]
    ELSE LET last_time == MaxTimeOf(df_local.rows)
             fresh == SelectSeq(df_clean.rows, LAMBDA r : r.time > last_time)
         IN  [merged |-> [cols |-> df_local.cols \cup df_clean.cols,
                          rows |-> SortByTime(fresh)],
              new_rows |-> Len(fresh)]

\* A merge that counts every row of the batch as new.
Merge_CountsBatch(df_local, df_clean) ==
    IF IsEmpty(df_local)
    THEN [merged |-> df_clean, new_rows |-> Len(df_clean.rows)]
    ELSE LET last_time == MaxTimeOf(df_local.rows)
             fresh == SelectSeq(df_clean.rows, LAMBDA r : r.time > last_time)
         IN  [merged |-> [cols |-> df_local.cols \cup df_clean.cols,
                          rows |-> SortByTime(df_local.rows \o fresh)],
              new_rows |-> Len(df_clean.rows)]

\* process_and_train, lines 178-186: merged and new_rows.
Merge(df_local, df_clean) ==
    IF IsEmpty(df_local)
    THEN [merged |-> df_clean, new_rows |-> Len(df_clean.rows)]
    ELSE LET last_time == MaxTimeOf(df_local.rows)
             fresh == SelectSeq(df_clean.rows, LAMBDA r : IsNew(r.time, last_time))
         IN  [merged |-> [cols |-> df_local.cols \cup df_clean.cols,
                          rows |-> SortByTime(df_local.rows \o fresh)],
              new_rows |-> Len(fresh)]

\* ------------------------------------------------------- the files
Absent == [state |-> "absent", cols |-> {}, rows |-> <<>>]
Complete(df) == [state |-> "complete", cols |-> df.cols, rows |-> df.rows]
\* A file opened for writing and not yet closed holds no whole content.
Writing == [state |-> "writing", cols |-> {}, rows |-> <<>>]
\* A model file names the run that wrote it by the row count it was fit on.
NoModel == [state |-> "absent", run |-> 0]
Model(run) == [state |-> "complete", run |-> run]
WritingModel(run) == [state |-> "writing", run |-> run]

\* anom_features, lines 121-124 and 295-303: the sensor columns the frame
\* has, and battery_drop_per_min.
AnomFeatures(cols) == (cols \cap NumCols) \cup {"battery_drop_per_min"}
\* The anomaly model file also holds the feature columns it was fit on.
AnomModel(df) ==
    [state |-> "complete", run |-> Len(df.rows), cols |-> AnomFeatures(df.cols)]

\* The startup thread and the scheduler's pool threads.
Workers == {"w1", "w2"}
Threads == {"main"} \cup Workers
Idle == [at |-> "idle", rf |-> 0]

\* A response: the endpoint, what it returned ("error": the handler raised),
\* and whether the file it read last did not exist.
Answer(endpoint, result, missing) ==
    [endpoint |-> endpoint, result |-> result, missing |-> missing]
NoAnswer == Answer("none", "none", FALSE)

VARIABLES
    localFile,   \* data/local.parquet
    anomFile,    \* models/anomaly_iforest.joblib
    rfFile,      \* models/temp_rf_model.joblib
    scalerFile,  \* models/temp_scaler.joblib
    last,        \* what the last finished cycle did
    repoll,      \* the bucket object, when the next poll finds it unchanged
    phase,       \* "startup": startup_event runs; "serving": scheduler started
    pc,          \* where each thread stands in process_and_train
    merged,      \* each thread's merged frame
    missed,      \* the scheduler skipped a run of the job
    req,         \* where the /predict request stands, and the model it loaded
    seenRead,    \* what the last load_local of a request found
    seenPair,    \* what the last /predict found of the model and the scaler
    answer,      \* the last response of a read endpoint
    cleanIn,     \* the table handed to clean_df
    cleanOut,    \* whether clean_df has returned, and its frame
    sent_timestamps, \* the forwarder's global set
    stampFile,   \* the lines of sent_timestamps.txt
    fpc,         \* where each forwarder thread stands
    telemetry,   \* the timestamp of the message each thread handles
    to_keep,     \* each thread's local to_keep
    sends,       \* how often send_to_thingspeak was called, per timestamp
    accepted,    \* the timestamps of the posts ThingSpeak accepted
    returned     \* the timestamps whose save_sent_timestamp has returned

files == <<localFile, anomFile, rfFile, scalerFile>>
seqVars == <<last, repoll>>
threadVars == <<phase, pc, merged, missed>>
reqVars == <<req, seenRead, seenPair, answer>>
cleanVars == <<cleanIn, cleanOut>>
\* The variables outside the backend's poll cycle and its requests.
fwdVars == <<sent_timestamps, stampFile, fpc, telemetry, to_keep, sends,
             accepted, returned>>
sideVars == <<cleanVars, fwdVars>>
vars == <<localFile, anomFile, rfFile, scalerFile, last, repoll,
          phase, pc, merged, missed, req, seenRead, seenPair, answer,
          cleanIn, cleanOut, sent_timestamps, stampFile, fpc, telemetry,
          to_keep, sends, accepted, returned>>

\* load_local: the frame read from the parquet file.
load_local == IF localFile.state = "complete"
              THEN [cols |-> localFile.cols, rows |-> localFile.rows]
              ELSE EmptyFrame

\* --------------------------------------------------------- training
\* X_anom has one row per row of the frame.
AnomRowCount(df) == Len(df.rows)

\* df_model, line 139: the rows that have the next-step Temperature and the
\* three Temperature lags (dropna looks at no other column).
FitRows(df) == {i \in 1..Len(df.rows) : i + 1 <= Len(df.rows) /\ i - MaxLag >= 1}
LabeledRowCount(df) == Cardinality(FitRows(df))

\* X, lines 141-142: whether a row of df_model has a NaN in battery_lag_1.
HasNaNFeature(df) == \E i \in FitRows(df) : df.rows[i - 1].Battery = "NaN"

\* scaler.fit_transform and rf.fit, lines 144-147, on an X that holds a NaN:
\* the installed scikit-learn either fits on it or raises ValueError.
FitOutcomes(df) == IF HasNaNFeature(df) THEN {"trained", "failed"} ELSE {"trained"}

\* train_and_save_models, lines 119-130.
AnomStep(df) ==
    IF "Battery" \notin df.cols THEN "failed"
    ELSE IF AnomRowCount(df) >= AnomMinRows THEN "trained"
    ELSE "skipped"

\* Whether lines 132-152 are reached after lines 119-130.
ForecastReached(anom) == anom # "failed"

\* train_and_save_models, lines 132-152.
ForecastStep(df, anom) ==
    IF ~ForecastReached(anom) THEN "not_attempted"
    ELSE IF ~({"Temperature", "Motion"} \subseteq df.cols) THEN "failed"
    ELSE IF LabeledRowCount(df) >= ForecastMinRows THEN "trained"
    ELSE "skipped"

\* The ways lines 132-152 can end on this frame.
ForecastOutcomes(df, anom) ==
    IF ForecastStep(df, anom) = "trained" THEN FitOutcomes(df)
    ELSE {ForecastStep(df, anom)}

\* ----------------------------------------------------- one cycle
\* process_and_train, lines 157-176: how the cycle ends before the merge
\* ("none": it reaches the merge).
AbortKind(raw) ==
    IF raw.fetch # "ok" THEN raw.fetch
    ELSE IF raw.rows = <<>> THEN "empty_csv"
    ELSE IF SchemaError(raw) THEN "no_time_column"
    ELSE IF IsEmpty(clean_df(raw)) THEN "empty_clean"
    ELSE "none"

\* A cycle that saves and retrains whatever the merge counted.
ShouldSave_Always(new_rows) == TRUE

\* process_and_train, line 188.
ShouldSave(new_rows) == new_rows # 0

\* What is wrong with a bucket object, read off the object itself.
InputFault(raw) ==
    IF raw.fetch # "ok" THEN raw.fetch
    ELSE IF raw.rows = <<>> THEN "empty_csv"
    ELSE IF ~raw.hasTime THEN "no_time_column"
    ELSE IF \A i \in 1..Len(raw.rows) : raw.rows[i].time = NaT THEN "empty_clean"
    ELSE "none"

\* The rows of df_clean at or before the watermark of a non-empty store, and
\* those among them that equal no persisted row.
StaleRows(df_local, df_clean) ==
    IF IsEmpty(df_local) THEN {}
    ELSE {i \in 1..Len(df_clean.rows) :
             df_clean.rows[i].time <= MaxTimeOf(df_local.rows)}
Conflicts(df_local, df_clean) ==
    {i \in StaleRows(df_local, df_clean) :
        \A j \in 1..Len(df_local.rows) : df_local.rows[j] # df_clean.rows[i]}

\* What a cycle was handed, counted on the frames themselves: the rows
\* persisted before it, the rows of the normalized batch, those of them later
\* than every persisted time, whether the series after the cycle is the batch
\* row for row, and the batch rows (all, and the later ones) whose time is
\* the time of no row of the series after the cycle.
Delivery(df_local, df_clean, after) ==
    LET n == Len(df_clean.rows)
        later == {i \in 1..n : \A j \in 1..Len(df_local.rows) :
                                  df_clean.rows[i].time > df_local.rows[j].time}
        gone == {i \in 1..n : \A j \in 1..Len(after) :
                                  after[j].time # df_clean.rows[i].time}
    IN  [before |-> Len(df_local.rows), batch |-> n,
         later |-> Cardinality(later), asBatch |-> after = df_clean.rows,
         absent |-> Cardinality(gone), absentLater |-> Cardinality(gone \cap later)]
NoDelivery ==
    [before |-> 0, batch |-> 0, later |-> 0, asBatch |-> FALSE,
     absent |-> 0, absentLater |-> 0]

\* The record of a finished cycle: the input's fault, where the code left
\* the cycle (kind), what the merge counted, what the cycle wrote, and what
\* it was handed.
Outcome(input, kind, new_rows, stale, conflicts, saved, anom, forecast, repeat, seen) ==
    [input |-> input, kind |-> kind, new_rows |-> new_rows, stale |-> stale,
     conflicts |-> conflicts, saved |-> saved, anom |-> anom,
     forecast |-> forecast, repeat |-> repeat, seen |-> seen]
NoOutcome ==
    Outcome("none", "none", 0, 0, 0, FALSE, "not_attempted", "not_attempted", FALSE,
            NoDelivery)

\* A cycle that puts the previous series back when a trainer raises.
StoreAfterTraining_RolledBack(saved, previous, anom, forecast) ==
    IF anom = "failed" \/ forecast = "failed" THEN previous ELSE saved

\* process_and_train, lines 192-193: save_local has returned before
\* train_and_save_models is called, and nothing undoes it.
StoreAfterTraining(saved, previous, anom, forecast) == saved

\* process_and_train as one step on the files.
Cycle(raw, repeat) ==
    LET abort == AbortKind(raw)
        input == InputFault(raw)
    IN
    IF abort # "none"
    THEN /\ UNCHANGED files
         /\ last' = Outcome(input, abort, 0, 0, 0, FALSE,
                            "not_attempted", "not_attempted", repeat, NoDelivery)
    ELSE LET df_clean == clean_df(raw)
             df_local == load_local
             m == Merge(df_local, df_clean)
             stale == Cardinality(StaleRows(df_local, df_clean))
             conflicts == Cardinality(Conflicts(df_local, df_clean))
         IN  IF ~ShouldSave(m.new_rows)
             THEN /\ UNCHANGED files
                  /\ last' = Outcome(input, "merged", m.new_rows, stale, conflicts,
                                     FALSE, "not_attempted", "not_attempted", repeat,
                                     Delivery(df_local, df_clean, localFile'.rows))
             ELSE LET anom == AnomStep(m.merged)
                      run == Len(m.merged.rows)
                  IN  \E forecast \in ForecastOutcomes(m.merged, anom) :
                      /\ localFile' = StoreAfterTraining(Complete(m.merged), localFile,
                                                         anom, forecast)
                      /\ anomFile' = IF anom = "trained" THEN AnomModel(m.merged)
                                     ELSE anomFile
                      /\ rfFile' = IF forecast = "trained" THEN Model(run) ELSE rfFile
                      /\ scalerFile' = IF forecast = "trained" THEN Model(run)
                                       ELSE scalerFile
                      /\ last' = Outcome(input, "merged", m.new_rows, stale, conflicts,
                                         TRUE, anom, forecast, repeat,
                                         Delivery(df_local, df_clean, localFile'.rows))

\* A poll that downloads a new bucket object; keep says whether the next
\* poll will find the same object.
Poll ==
    /\ repoll = NoRaw
    /\ \E raw \in Raws :
          /\ Cycle(raw, FALSE)
          /\ \E keep \in BOOLEAN : repoll' = IF keep THEN raw ELSE NoRaw
    /\ UNCHANGED <<threadVars, reqVars, sideVars>>

\* A poll that downloads the object the previous poll downloaded.
Repoll ==
    /\ repoll # NoRaw
    /\ Cycle(repoll, TRUE)
    /\ repoll' = NoRaw
    /\ UNCHANGED <<threadVars, reqVars, sideVars>>

NotCleaned == [called |-> FALSE, df |-> EmptyFrame]

\* The backend after construction.
BackendInit ==
    /\ localFile = Absent
    /\ anomFile = NoModel
    /\ rfFile = NoModel
    /\ scalerFile = NoModel
    /\ last = NoOutcome
    /\ repoll = NoRaw
    /\ phase = "startup"
    /\ pc = [t \in Threads |-> "idle"]
    /\ merged = [t \in Threads |-> EmptyFrame]
    /\ missed = FALSE
    /\ req = Idle
    /\ seenRead = "none"
    /\ seenPair = "none"
    /\ answer = NoAnswer

\* The forwarder's threads: the main thread, which runs
\* fetch_historical_data, and the threads on_message starts.
MsgThreads == {"m1", "m2"}
FwdThreads == {"fetch"} \cup MsgThreads
\* The timestamps of the messages that arrive, all younger than
\* HISTORY_HOURS, and one of an earlier run that is older.
FreshStamps == {"t1", "t2"}
OldStamps == {"t0"}

\* The forwarder after its module is loaded, lines 26-34: the set holds the
\* lines of the file, here the timestamp an earlier run sent.
ForwarderInit ==
    /\ sent_timestamps = OldStamps
    /\ stampFile = OldStamps
    /\ fpc = [t \in FwdThreads |-> "idle"]
    /\ telemetry = [t \in FwdThreads |-> "none"]
    /\ to_keep = [t \in FwdThreads |-> {}]
    /\ sends = [ts \in FreshStamps |-> 0]
    /\ accepted = OldStamps
    /\ returned = {}

Init ==
    /\ BackendInit
    /\ cleanIn = NoRaw
    /\ cleanOut = NotCleaned
    /\ ForwarderInit

Next == Poll \/ Repoll

Spec == Init /\ [][Next]_vars

\* ------------------------------------------------- training runs
\* A poll of the training runs: the next poll finds another object.
TrainPoll ==
    /\ \E raw \in TrainRaws : Cycle(raw, FALSE)
    /\ repoll' = NoRaw
    /\ UNCHANGED <<threadVars, reqVars, sideVars>>

TrainNext == TrainPoll

TrainSpec == Init /\ [][TrainNext]_vars

\* -------------------------------------------- interpolation runs
\* clean_df is handed one of the tables.
InterpInit ==
    /\ BackendInit
    /\ cleanIn \in InterpTables
    /\ cleanOut = NotCleaned
    /\ ForwarderInit

\* process_and_train, lines 169-173: clean_df on a table that is not empty.
Clean ==
    /\ cleanIn.rows # <<>>
    /\ ~cleanOut.called
    /\ cleanOut' = [called |-> TRUE, df |-> clean_df(cleanIn)]
    /\ UNCHANGED <<files, seqVars, threadVars, reqVars, cleanIn, fwdVars>>

InterpNext == Clean

InterpSpec == InterpInit /\ [][InterpNext]_vars

\* ------------------------------------------- threads and requests
\* The bucket objects of the interleaved runs.
ConcRaws ==
    {Table(cols, TRUE, Backlog(TimeBase)) : cols \in ColsChoices}
    \cup {Table(NumCols \ {"Humidity"}, TRUE, Backlog(TimeBase))}
    \cup {Table(NumCols, TRUE, <<Reading(t, 20)>>) : t \in Times}
    \cup {Failure("download_error")}

\* A scheduler that submits every run that is due.
CanSubmit_Unlimited == TRUE

\* scheduler.add_job with the job defaults: a run is submitted only while
\* fewer than max_instances (1) instances of the job are running.
CanSubmit == Cardinality({w \in Workers : pc[w] # "idle"}) < MaxInstances

\* process_and_train returns or raises: the thread is done with the cycle;
\* startup_event then starts the scheduler.
Finish(t) ==
    /\ pc' = [pc EXCEPT ![t] = "idle"]
    /\ merged' = [merged EXCEPT ![t] = EmptyFrame]
    /\ phase' = IF t = "main" THEN "serving" ELSE phase

Goto(t, label) ==
    /\ pc' = [pc EXCEPT ![t] = label]
    /\ UNCHANGED <<merged, phase>>

\* A cycle that trains on the merged frame before it saves it.
Begin_TrainFirst(t, raw) ==
    /\ UNCHANGED files
    /\ IF AbortKind(raw) # "none" \/ localFile.state = "writing"
       THEN Finish(t)
       ELSE LET m == Merge(load_local, clean_df(raw)) IN
            IF ~ShouldSave(m.new_rows)
            THEN Finish(t)
            ELSE /\ pc' = [pc EXCEPT ![t] = "anom"]
                 /\ merged' = [merged EXCEPT ![t] = m.merged]
                 /\ UNCHANGED phase

\* process_and_train, lines 156-191: download, clean, load, merge.
Begin(t, raw) ==
    /\ UNCHANGED files
    /\ IF AbortKind(raw) # "none" \/ localFile.state = "writing"
       THEN Finish(t)
       ELSE LET m == Merge(load_local, clean_df(raw)) IN
            IF ~ShouldSave(m.new_rows)
            THEN Finish(t)
            ELSE /\ pc' = [pc EXCEPT ![t] = "save"]
                 /\ merged' = [merged EXCEPT ![t] = m.merged]
                 /\ UNCHANGED phase

\* startup_event, lines 199-202: the run before the scheduler exists.
StartupRun ==
    /\ phase = "startup" /\ pc["main"] = "idle"
    /\ \E raw \in ConcRaws : Begin("main", raw)
    /\ UNCHANGED <<missed, seqVars, sideVars, reqVars>>

\* The interval trigger fires and a pool thread runs the job.
Trigger ==
    /\ phase = "serving" /\ CanSubmit
    /\ \E w \in Workers, raw \in ConcRaws : pc[w] = "idle" /\ Begin(w, raw)
    /\ UNCHANGED <<missed, seqVars, sideVars, reqVars>>

\* The interval trigger fires while the job runs: the run is skipped.
TriggerMissed ==
    /\ phase = "serving" /\ ~CanSubmit
    /\ missed' = TRUE
    /\ UNCHANGED <<files, phase, pc, merged, seqVars, sideVars, reqVars>>

\* save_local: to_parquet opens the file for writing ...
SaveOpen(t) ==
    /\ pc[t] = "save"
    /\ localFile' = Writing
    /\ Goto(t, "saving")
    /\ UNCHANGED <<anomFile, rfFile, scalerFile, missed, seqVars, sideVars, reqVars>>

\* ... and closes it with the merged frame in it.
SaveClose(t) ==
    /\ pc[t] = "saving"
    /\ localFile' = Complete(merged[t])
    /\ Goto(t, "anom")
    /\ UNCHANGED <<anomFile, rfFile, scalerFile, missed, seqVars, sideVars, reqVars>>

\* train_and_save_models, lines 117-129, up to the open of the dump.
AnomTrain(t) ==
    /\ pc[t] = "anom"
    /\ LET step == AnomStep(merged[t]) IN
       IF step = "failed" THEN Finish(t) /\ UNCHANGED anomFile
       ELSE IF step = "skipped" THEN Goto(t, "forecast") /\ UNCHANGED anomFile
       ELSE Goto(t, "anomDump") /\ anomFile' = WritingModel(Len(merged[t].rows))
    /\ UNCHANGED <<localFile, rfFile, scalerFile, missed, seqVars, sideVars, reqVars>>

AnomDumpClose(t) ==
    /\ pc[t] = "anomDump"
    /\ anomFile' = AnomModel(merged[t])
    /\ Goto(t, "forecast")
    /\ UNCHANGED <<localFile, rfFile, scalerFile, missed, seqVars, sideVars, reqVars>>

\* train_and_save_models, lines 132-148, up to the open of the first dump.
ForecastTrain(t) ==
    /\ pc[t] = "forecast"
    /\ \E step \in ForecastOutcomes(merged[t], "done") :
          IF step = "trained"
          THEN Goto(t, "rfDump") /\ rfFile' = WritingModel(Len(merged[t].rows))
          ELSE Finish(t) /\ UNCHANGED rfFile
    /\ UNCHANGED <<localFile, anomFile, scalerFile, missed, seqVars, sideVars, reqVars>>

RfDumpClose(t) ==
    /\ pc[t] = "rfDump"
    /\ rfFile' = Model(Len(merged[t].rows))
    /\ Goto(t, "scaler")
    /\ UNCHANGED <<localFile, anomFile, scalerFile, missed, seqVars, sideVars, reqVars>>

\* train_and_save_models, line 149.
ScalerDumpOpen(t) ==
    /\ pc[t] = "scaler"
    /\ scalerFile' = WritingModel(Len(merged[t].rows))
    /\ Goto(t, "scalerDump")
    /\ UNCHANGED <<localFile, anomFile, rfFile, missed, seqVars, sideVars, reqVars>>

ScalerDumpClose(t) ==
    /\ pc[t] = "scalerDump"
    /\ scalerFile' = Model(Len(merged[t].rows))
    /\ Finish(t)
    /\ UNCHANGED <<localFile, anomFile, rfFile, missed, seqVars, sideVars, reqVars>>

\* What a load_local of a request finds.
ReadOf(file) == IF file.state = "writing" THEN "torn" ELSE "whole"

\* A get_analytics with no branch for the empty frame: the mean of no row
\* is NaN, which the JSON response cannot carry.
AnalyticsResponse_NoEmptyBranch(file) ==
    IF file.state = "complete" THEN "averages" ELSE "error"

\* get_analytics, lines 219-252: zero averages and no reading for the empty
\* frame, the averages otherwise; read_parquet raises on a torn file.
AnalyticsResponse(file) ==
    IF file.state = "writing" THEN "error"
    ELSE IF file.state = "absent" THEN "zeros"
    ELSE "averages"

\* A get_analytics that writes the frame it loaded back to the store.
AnalyticsLoad_Saves ==
    /\ phase = "serving"
    /\ seenRead' = ReadOf(localFile)
    /\ answer' = Answer("analytics", AnalyticsResponse(localFile),
                        localFile.state = "absent")
    /\ localFile' = Complete(load_local)
    /\ UNCHANGED <<anomFile, rfFile, scalerFile, threadVars, seqVars, sideVars, req, seenPair>>

\* get_analytics.
AnalyticsLoad ==
    /\ phase = "serving"
    /\ seenRead' = ReadOf(localFile)
    /\ answer' = Answer("analytics", AnalyticsResponse(localFile),
                        localFile.state = "absent")
    /\ UNCHANGED <<files, threadVars, seqVars, sideVars, req, seenPair>>

\* debug_status, lines 335-342: load_local and two os.path.exists.
DebugStatus ==
    /\ phase = "serving"
    /\ seenRead' = ReadOf(localFile)
    /\ answer' = Answer("status",
                        IF localFile.state = "writing" THEN "error" ELSE "status",
                        FALSE)
    /\ UNCHANGED <<files, threadVars, seqVars, sideVars, req, seenPair>>

\* joblib.load in a handler that catches FileNotFoundError, lines 262-266
\* and 289-292: what the handler does next.
LoadOr(file, onMissing) ==
    IF file.state = "absent" THEN onMissing
    ELSE IF file.state = "writing" THEN "error"
    ELSE "loaded"

\* predict_temperature, lines 257-260.
PredictLoad ==
    /\ phase = "serving" /\ req.at = "idle"
    /\ seenRead' = ReadOf(localFile)
    /\ req' = IF localFile.state = "complete" THEN [at |-> "rf", rf |-> 0] ELSE Idle
    /\ answer' = IF localFile.state = "complete" THEN answer
                 ELSE Answer("predict",
                             IF localFile.state = "writing" THEN "error"
                             ELSE "unavailable",
                             localFile.state = "absent")
    /\ UNCHANGED <<files, threadVars, seqVars, sideVars, seenPair>>

\* predict_temperature, line 263.
PredictRf ==
    /\ req.at = "rf"
    /\ LET got == LoadOr(rfFile, "unavailable") IN
       IF got = "loaded"
       THEN req' = [at |-> "scaler", rf |-> rfFile.run] /\ UNCHANGED <<seenPair, answer>>
       ELSE /\ req' = Idle
            /\ seenPair' = IF rfFile.state = "writing" THEN "partial" ELSE "unavailable"
            /\ answer' = Answer("predict", got, rfFile.state = "absent")
    /\ UNCHANGED <<files, threadVars, seqVars, sideVars, seenRead>>

\* predict_temperature, lines 264-279.
PredictScaler ==
    /\ req.at = "scaler"
    /\ req' = Idle
    /\ seenPair' = IF scalerFile.state = "absent" THEN "unavailable"
                   ELSE IF scalerFile.state = "writing" THEN "partial"
                   ELSE IF scalerFile.run = req.rf THEN "paired"
                   ELSE "mixed"
    /\ LET got == LoadOr(scalerFile, "unavailable") IN
       answer' = Answer("predict", IF got = "loaded" THEN "prediction" ELSE got,
                        scalerFile.state = "absent")
    /\ UNCHANGED <<files, threadVars, seqVars, sideVars, seenRead>>

\* get_anomalies, lines 284-287.
AnomaliesLoad ==
    /\ phase = "serving" /\ req.at = "idle"
    /\ seenRead' = ReadOf(localFile)
    /\ req' = IF localFile.state = "complete"
              THEN [at |-> "anomModel", rf |-> 0, cols |-> localFile.cols]
              ELSE Idle
    /\ answer' = IF localFile.state = "complete" THEN answer
                 ELSE Answer("anomalies",
                             IF localFile.state = "writing" THEN "error" ELSE "empty",
                             localFile.state = "absent")
    /\ UNCHANGED <<files, threadVars, seqVars, sideVars, seenPair>>

\* get_anomalies, lines 294-320, on the frame and the model it loaded:
\* df['Battery'] (line 296), decision_function on the frame's features
\* (line 305, ValueError when the model was fit on other features), the
\* five columns of the result (line 312).
Score(cols, model) ==
    IF "Battery" \notin cols THEN "error"
    ELSE IF AnomFeatures(cols) # model.cols THEN "mismatch"
    ELSE IF ~(NumCols \subseteq cols) THEN "error"
    ELSE "scored"

\* get_anomalies, lines 289-320.
AnomaliesScore ==
    /\ req.at = "anomModel"
    /\ req' = Idle
    /\ LET got == LoadOr(anomFile, "empty") IN
       answer' = Answer("anomalies",
                        IF got = "loaded" THEN Score(req.cols, anomFile) ELSE got,
                        anomFile.state = "absent")
    /\ UNCHANGED <<files, threadVars, seqVars, sideVars, seenRead, seenPair>>

ThreadStep(t) ==
    \/ SaveOpen(t) \/ SaveClose(t)
    \/ AnomTrain(t) \/ AnomDumpClose(t)
    \/ ForecastTrain(t) \/ RfDumpClose(t)
    \/ ScalerDumpOpen(t) \/ ScalerDumpClose(t)

ConcNext ==
    \/ StartupRun \/ Trigger \/ TriggerMissed
    \/ \E t \in Threads : ThreadStep(t)
    \/ AnalyticsLoad \/ DebugStatus
    \/ PredictLoad \/ PredictRf \/ PredictScaler
    \/ AnomaliesLoad \/ AnomaliesScore

ConcSpec == Init /\ [][ConcNext]_vars

\* ------------------------------------------ the ThingSpeak forwarder
backendVars == <<files, seqVars, threadVars, reqVars, cleanVars>>

\* save_sent_timestamp, line 44: whether a timestamp is at most
\* HISTORY_HOURS old.
Fresh(ts) == ts \in FreshStamps

FwdGoto(t, label) == fpc' = [fpc EXCEPT ![t] = label]

\* fetch_historical_data, lines 116-132: the main thread takes the next
\* stored message and calls send_to_thingspeak_safe.
FetchNext ==
    /\ fpc["fetch"] = "idle"
    /\ \E ts \in FreshStamps :
          /\ sends[ts] < MaxSends
          /\ telemetry' = [telemetry EXCEPT !["fetch"] = ts]
    /\ FwdGoto("fetch", "check")
    /\ UNCHANGED <<sent_timestamps, stampFile, to_keep, sends, accepted, returned,
                   backendVars>>

\* on_message, lines 149-166: a thread is started for the message that
\* arrived and calls send_to_thingspeak_safe.
OnMessage(t) ==
    /\ fpc[t] = "idle"
    /\ \E ts \in FreshStamps :
          /\ sends[ts] < MaxSends
          /\ telemetry' = [telemetry EXCEPT ![t] = ts]
    /\ FwdGoto(t, "check")
    /\ UNCHANGED <<sent_timestamps, stampFile, to_keep, sends, accepted, returned,
                   backendVars>>

\* send_to_thingspeak_safe, lines 75-78.
SafeCheck(t) ==
    /\ fpc[t] = "check"
    /\ FwdGoto(t, IF telemetry[t] \in sent_timestamps THEN "idle" ELSE "post")
    /\ UNCHANGED <<sent_timestamps, stampFile, telemetry, to_keep, sends, accepted,
                   returned, backendVars>>

\* send_to_thingspeak, lines 79 and 83-92: the post is accepted (200 or
\* 201), rejected, or raises; the function returns in each case.
Post(t) ==
    /\ fpc[t] = "post"
    /\ sends' = [sends EXCEPT ![telemetry[t]] = @ + 1]
    /\ \E outcome \in {"accepted", "rejected", "raised"} :
          accepted' = IF outcome = "accepted" THEN accepted \cup {telemetry[t]}
                      ELSE accepted
    /\ FwdGoto(t, "add")
    /\ UNCHANGED <<sent_timestamps, stampFile, telemetry, to_keep, returned,
                   backendVars>>

\* save_sent_timestamp, line 39.
SaveAdd(t) ==
    /\ fpc[t] = "add"
    /\ sent_timestamps' = sent_timestamps \cup {telemetry[t]}
    /\ FwdGoto(t, "keep")
    /\ UNCHANGED <<stampFile, telemetry, to_keep, sends, accepted, returned,
                   backendVars>>

\* save_sent_timestamp, lines 41-45.
SaveKeep(t) ==
    /\ fpc[t] = "keep"
    /\ to_keep' = [to_keep EXCEPT ![t] = {ts \in sent_timestamps : Fresh(ts)}]
    /\ FwdGoto(t, "assign")
    /\ UNCHANGED <<sent_timestamps, stampFile, telemetry, sends, accepted, returned,
                   backendVars>>

\* save_sent_timestamp, line 46.
SaveAssign(t) ==
    /\ fpc[t] = "assign"
    /\ sent_timestamps' = to_keep[t]
    /\ FwdGoto(t, "write")
    /\ UNCHANGED <<stampFile, telemetry, to_keep, sends, accepted, returned,
                   backendVars>>

\* save_sent_timestamp, lines 47-49, and its return.
SaveWrite(t) ==
    /\ fpc[t] = "write"
    /\ stampFile' = sent_timestamps
    /\ returned' = returned \cup {telemetry[t]}
    /\ FwdGoto(t, "idle")
    /\ UNCHANGED <<sent_timestamps, telemetry, to_keep, sends, accepted,
                   backendVars>>

FwdStep(t) ==
    \/ SafeCheck(t) \/ Post(t)
    \/ SaveAdd(t) \/ SaveKeep(t) \/ SaveAssign(t) \/ SaveWrite(t)

FwdNext ==
    \/ FetchNext
    \/ \E t \in MsgThreads : OnMessage(t)
    \/ \E t \in FwdThreads : FwdStep(t)

FwdSpec == Init /\ [][FwdNext]_vars

\* ------------------------------------------------------------ claims
Rows == localFile.rows
RowSet(rows) == {rows[i] : i \in 1..Len(rows)}
Occurrences(rows, r) == Cardinality({i \in 1..Len(rows) : rows[i] = r})

\* C1: a poll that downloads the object the previous poll downloaded finds
\* no new row (new_rows = 0), writes neither the store nor an artifact, and
\* leaves every file as the first poll left it.
C1_SecondRunIsNoOp ==
    [][repoll # NoRaw =>
          /\ last'.repeat
          /\ last'.new_rows = 0
          /\ ~last'.saved
          /\ last'.anom = "not_attempted" /\ last'.forecast = "not_attempted"
          /\ files' = files]_vars

C1_Witness ==
    /\ last.repeat
    /\ last.kind = "merged"
    /\ last.new_rows = 0
    /\ last.stale > 0
    /\ localFile.state = "complete"

\* C2: no two rows of the persisted series share a time.
C2_OneRowPerTime ==
    \A i, j \in 1..Len(Rows) : i # j => Rows[i].time # Rows[j].time

\* C3: a cycle on a non-empty store adds no row at or before the watermark:
\* the rows of the new series at or before the old watermark are the old
\* rows, each as often as before and with its values.
C3_PersistedRowsKept ==
    [][localFile.state = "complete" =>
          LET w == MaxTimeOf(Rows)
              old == SelectSeq(localFile'.rows, LAMBDA r : r.time <= w)
          IN  /\ localFile'.state = "complete"
              /\ \/ old = Rows
                 \/ /\ Len(old) = Len(Rows)
                    /\ \A r \in RowSet(Rows) \cup RowSet(old) :
                          Occurrences(old, r) = Occurrences(Rows, r)]_vars

C3_Witness ==
    /\ last.kind = "merged"
    /\ last.conflicts > 0
    /\ localFile.state = "complete"
    /\ \E i \in 1..Len(Rows) : Rows[i] = Reading(TimeBase + 1, 20)
    /\ \A i \in 1..Len(Rows) : Rows[i].Temperature = 20

\* C4: the persisted series is in non-decreasing order of time.
C4_SeriesSorted ==
    \A i \in 1..(Len(Rows) - 1) : Rows[i].time <= Rows[i + 1].time

C4_Witness ==
    /\ last.kind = "merged" /\ last.saved
    /\ last.new_rows = 2
    /\ Len(Rows) > last.new_rows
    /\ Rows[Len(Rows) - 1].time < Rows[Len(Rows)].time

\* C5: no load_local of a request finds the parquet file half written.
C5_ReadsSeeWholeSeries == seenRead # "torn"

\* C6: no /predict loads a half-written model file, and none pairs a model
\* of one training run with the scaler of another.
C6_ArtifactsWholeAndPaired == seenPair \notin {"partial", "mixed"}

\* C7: at most one thread is inside process_and_train, and none of the pool
\* while startup_event runs.
C7_CyclesDoNotOverlap ==
    /\ Cardinality({t \in Threads : pc[t] # "idle"}) <= 1
    /\ phase = "startup" => \A w \in Workers : pc[w] = "idle"

C7_Witness ==
    /\ missed
    /\ \E w \in Workers : pc[w] = "saving"

\* C8: a cycle whose merge counts no new row writes nothing: the store and
\* the three artifacts are after it what they were before it.
C8_NoOpCycle ==
    [][(last'.kind = "merged" /\ last'.new_rows = 0) =>
          /\ ~last'.saved
          /\ last'.anom = "not_attempted" /\ last'.forecast = "not_attempted"
          /\ files' = files]_vars

C8_Witness ==
    /\ last.kind = "merged" /\ last.new_rows = 0
    /\ ~last.repeat
    /\ anomFile.state = "complete" /\ rfFile.state = "complete"

\* C9: a cycle whose download or parse fails, whose table is empty or has no
\* time column, or whose cleaned table is empty, writes nothing.
C9_AbortWritesNothing ==
    [][last'.input # "none" =>
          /\ ~last'.saved
          /\ last'.anom = "not_attempted" /\ last'.forecast = "not_attempted"
          /\ files' = files]_vars

C9_Witness ==
    /\ last.input = "no_time_column"
    /\ last.kind = "no_time_column"
    /\ localFile.state = "complete"

\* C10: when the anomaly trainer fails in a cycle that saved, the forecast
\* trainer still runs: with its 20 labeled rows and its columns it writes
\* the forecast model and the scaler of this cycle.
C10_SiblingTrainerRuns ==
    (last.saved /\ last.anom = "failed") =>
        /\ last.forecast # "not_attempted"
        /\ (LabeledRowCount(load_local) >= ForecastMinRows
              /\ {"Temperature", "Motion"} \subseteq localFile.cols)
            => (rfFile = Model(Len(Rows)) /\ scalerFile = Model(Len(Rows)))

\* C11: when a trainer raises in a cycle that found new rows, the series
\* save_local wrote in that cycle stays persisted: the store is complete and
\* holds the rows persisted before the cycle and the new rows.
C11_SeriesSurvivesTrainerFailure ==
    (last.saved /\ (last.anom = "failed" \/ last.forecast = "failed")) =>
        /\ last.new_rows > 0
        /\ localFile.state = "complete"
        /\ Len(Rows) = last.seen.before + last.new_rows
        /\ last.seen.absentLater = 0

C11_Witness ==
    /\ last.saved
    /\ last.anom = "trained" /\ last.forecast = "failed"
    /\ anomFile = AnomModel(load_local)
    /\ last.seen.before > 0 /\ Len(Rows) > last.seen.before

\* C12: after a cycle that saved, the anomaly artifact is the one fit on the
\* saved series when the series has 10 rows or more; with 9 rows or fewer no
\* anomaly artifact has been written and the trainer has not raised.
C12_AnomalyGate ==
    last.saved =>
        /\ Len(Rows) >= AnomMinRows => anomFile = AnomModel(load_local)
        /\ Len(Rows) < AnomMinRows => (anomFile = NoModel /\ last.anom = "skipped")

\* The rows that have the next-step target and every lag feature of the
\* forecast: the three Temperature lags, motion_lag_1 and battery_lag_1.
CompleteLabeledRows(df) == {i \in FitRows(df) : df.rows[i - 1].Battery # "NaN"}

\* C13: after a cycle that saved, the forecast model and the scaler are the
\* ones fit on the saved series when it has 20 complete labeled rows or
\* more, whatever the anomaly trainer did; with fewer, neither has been
\* written (the complete labeled rows of a series never become fewer).
C13_ForecastGate ==
    last.saved =>
        IF Cardinality(CompleteLabeledRows(load_local)) >= ForecastMinRows
        THEN rfFile = Model(Len(Rows)) /\ scalerFile = Model(Len(Rows))
        ELSE rfFile = NoModel /\ scalerFile = NoModel

\* C14: a read endpoint that finds no series, or not the model file it
\* needs, does not raise: /predict answers that no prediction is available,
\* /anomalies answers the empty list, /analytics answers zero averages and
\* no reading.
C14_ReadsDegradeGracefully ==
    answer.missing =>
        /\ answer.endpoint = "predict" => answer.result = "unavailable"
        /\ answer.endpoint = "anomalies" => answer.result = "empty"
        /\ answer.endpoint = "analytics" => answer.result = "zeros"

C14_Witness ==
    /\ answer.endpoint = "predict"
    /\ answer.missing
    /\ localFile.state = "complete"
    /\ rfFile.state = "absent"

\* C15 as stated: after a cycle that reached the merge, every reading of the
\* normalized batch has a row of its time in the persisted series.
C15_EveryDeliveredReadingPersisted ==
    last.kind = "merged" => last.seen.absent = 0

\* C15 amended: after a cycle that reached the merge, every reading of the
\* batch later than every time persisted before the cycle (every reading,
\* when nothing was persisted) has a row of its time in the persisted
\* series; a reading that arrives at or before the watermark is not added.
C15_LaterReadingsPersisted ==
    last.kind = "merged" =>
        /\ last.seen.absentLater = 0
        /\ last.seen.before = 0 => last.seen.absent = 0
        /\ last.saved => Len(Rows) = last.seen.before + last.seen.later

C15_Witness ==
    /\ last.kind = "merged"
    /\ last.seen.before > 0
    /\ last.seen.absent > 0
    /\ last.seen.absent = last.seen.batch - last.seen.later

\* C17: the merge counts as new the batch rows later than every persisted
\* time; on an empty store the merged series is the normalized batch and
\* new_rows its length; a saved series has len(existing) + new_rows rows.
C17_MergeResult ==
    last.kind = "merged" =>
        /\ last.new_rows = last.seen.later
        /\ last.seen.before = 0 =>
              (last.new_rows = last.seen.batch /\ last.saved /\ last.seen.asBatch)
        /\ last.saved => Len(Rows) = last.seen.before + last.new_rows

C17_Witness ==
    /\ last.kind = "merged" /\ last.saved
    /\ last.seen.before > 0
    /\ last.stale > 0
    /\ last.new_rows > 0 /\ last.new_rows < last.seen.batch

\* The places of a cycle from which the store, and the artifacts, are written.
SaveLabels == {"save", "saving"}
TrainLabels == {"anom", "anomDump", "forecast", "rfDump", "scaler", "scalerDump"}

\* C16: a step in which a request advances or answers leaves the store and
\* the three artifacts as they were; the store changes only in the save of
\* a cycle and an artifact only in the training of a cycle.
C16_ReadsWriteNothing ==
    [][/\ reqVars' # reqVars => files' = files
       /\ localFile' # localFile => \E t \in Threads : pc[t] \in SaveLabels
       /\ <<anomFile, rfFile, scalerFile>>' # <<anomFile, rfFile, scalerFile>>
            => \E t \in Threads : pc[t] \in TrainLabels]_vars

C16_Witness ==
    /\ answer.endpoint = "anomalies" /\ answer.result = "scored"
    /\ seenPair = "paired"
    /\ \E t \in Threads : pc[t] = "idle" /\ localFile.state = "complete"
    /\ rfFile = Model(Len(Rows))

\* C18: an artifact is written only by a cycle that has saved its merged
\* frame, while the store holds that frame, and it is fit on that frame.
C18_TrainAfterPersist ==
    [][<<anomFile, rfFile, scalerFile>>' # <<anomFile, rfFile, scalerFile>> =>
          \E t \in Threads :
             /\ pc[t] \in TrainLabels
             /\ localFile = Complete(merged[t])
             /\ anomFile' # anomFile => anomFile'.run = Len(Rows)
             /\ rfFile' # rfFile => rfFile'.run = Len(Rows)
             /\ scalerFile' # scalerFile => scalerFile'.run = Len(Rows)]_vars

C18_Witness ==
    \E t \in Threads :
       /\ pc[t] = "scalerDump"
       /\ localFile = Complete(merged[t])
       /\ rfFile = Model(Len(Rows))
       /\ anomFile = AnomModel(merged[t])

\* C19: no /anomalies scores the persisted series with a model that was fit
\* on other feature columns than the series has.
C19_ScoringSchemaIsTrainingSchema == answer.result # "mismatch"

\* C20: when a cycle hands rows to the forecast scaler and model, each of
\* them has the target and all five features, and there are 20 or more.
C20_FitRowsComplete ==
    (last.saved /\ ForecastStep(load_local, last.anom) = "trained") =>
        /\ ~HasNaNFeature(load_local)
        /\ Cardinality(CompleteLabeledRows(load_local)) >= ForecastMinRows

\* C22: in every cycle on a persisted series the series stays persisted,
\* its latest time and its row count do not decrease; the latest time grows
\* in a cycle that writes the store, and a cycle that found no new row or
\* aborted leaves the store as it was.
C22_WatermarkMonotone ==
    [][localFile.state = "complete" =>
          /\ localFile'.state = "complete"
          /\ Len(localFile'.rows) >= Len(Rows)
          /\ MaxTimeOf(localFile'.rows) >= MaxTimeOf(Rows)
          /\ localFile' # localFile => MaxTimeOf(localFile'.rows) > MaxTimeOf(Rows)
          /\ (last'.input # "none" \/ last'.seen.later = 0) => localFile' = localFile
          /\ (last'.input = "none" /\ last'.seen.later > 0) => localFile' # localFile]_vars

C22_Witness ==
    /\ last.saved
    /\ last.seen.before > 0
    /\ last.new_rows = 1
    /\ Rows[Len(Rows)].time = TimeBase + MaxTime
    /\ Rows[1].time = TimeBase + 1

\* C21: clean_df keeps the rows, their times and the known Temperature
\* cells; a missing cell between two known cells lies on the straight line
\* through them over time; a missing cell before the first known cell takes
\* its value, and one after the last known cell takes that one's.
C21_InterpolationBoundary ==
    cleanOut.called =>
        LET in == cleanIn.rows
            out == cleanOut.df.rows
            known == {i \in 1..Len(in) : in[i].Temperature # NaN}
        IN  /\ Len(out) = Len(in)
            /\ \A i \in 1..Len(in) :
                  /\ out[i].time = in[i].time
                  /\ i \in known => out[i].Temperature = in[i].Temperature
                  /\ (i \notin known /\ known # {}) =>
                        LET before == {k \in known : k < i}
                            after == {k \in known : k > i}
                        IN  IF before = {}
                            THEN \A k \in after :
                                   (\A j \in after : k <= j)
                                   => out[i].Temperature = in[k].Temperature
                            ELSE IF after = {}
                            THEN \A k \in before :
                                   (\A j \in before : j <= k)
                                   => out[i].Temperature = in[k].Temperature
                            ELSE \A l \in before, r \in after :
                                   ((\A j \in before : j <= l) /\ (\A j \in after : r <= j))
                                   => (out[i].Temperature - in[l].Temperature)
                                        * (in[r].time - in[l].time)
                                      = (in[r].Temperature - in[l].Temperature)
                                        * (in[i].time - in[l].time)

C21_Witness ==
    /\ cleanOut.called
    /\ [i \in 1..Len(cleanIn.rows) |-> cleanIn.rows[i].Temperature]
         = <<20 * Unit, NaN, NaN, 26 * Unit>>
    /\ [i \in 1..Len(cleanOut.df.rows) |-> cleanOut.df.rows[i].Temperature]
         = <<20 * Unit, 22 * Unit, 24 * Unit, 26 * Unit>>

\* C23: send_to_thingspeak is called at most once for a timestamp.
C23_NoDuplicateSends == \A ts \in FreshStamps : sends[ts] <= 1

\* C24: a timestamp of this run is in sent_timestamps only if ThingSpeak
\* accepted a post of it.
C24_MarkedOnlyWhenAccepted ==
    \A ts \in FreshStamps : ts \in sent_timestamps => ts \in accepted

\* C25: a timestamp whose save_sent_timestamp has returned, and that is not
\* older than HISTORY_HOURS, is in sent_timestamps and in the file.
C25_NoLostTimestamps ==
    \A ts \in returned : Fresh(ts) => (ts \in sent_timestamps /\ ts \in stampFile)

====
